---- MODULE Spec2Model ----
(***************************************************************************)
(* Forecasting pipeline of the coronavirus dashboard notebooks:            *)
(* monotonicity repair of cumulative series, LOWESS trend smoothing,        *)
(* bounds estimation, bounded curve fitting, forecast reconstruction        *)
(* (CasesModel) and the CFR-driven deaths forecast (DeathsModel).           *)
(*                                                                         *)
(* Dates are day numbers 1, 2, ...; a date-indexed pandas Series is a       *)
(* record [first |-> day of its first row, vals |-> its values].            *)
(* A float is an extended rational <<n, d>> in lowest terms with d >= 0:    *)
(* <<0, 0>> is NaN, <<1, 0>> is +inf and <<-1, 0>> is -inf.                 *)
(***************************************************************************)
EXTENDS Integers, Sequences, FiniteSets, TLC

VARIABLES
    pc,           \* position of the notebook / of the run
    raw,          \* world_deaths: one area's raw cumulative column
    fixedCol,     \* world_deaths_fixed: the repaired column
    flagged,      \* mask.sum().sum() of the post-repair check
    col,          \* s: the cumulative cases column given to smooth
    last_date,    \* self.last_date: the cutoff day
    lowess_par,   \* the curve returned by statsmodels' lowess for this call
    smoothed,     \* the Series returned by smooth
    cfg,          \* self.n_train, self.n_pred, self.L_n_min, self.L_n_max
    train,        \* train: the training window of the smoothed series
    bounds,       \* bounds: lower and upper bound of L, x0, k, v, s
    p0,           \* p0: initial guess of L, x0, k, v, s
    params,       \* params: fitted L, x0, k, v, s
    pred_index,   \* self.pred_index: the forecast days
    x_pred,       \* x_pred: the points on which the model is evaluated
    y_pred,       \* y_pred: the model evaluated on x_pred
    pred_daily,   \* pred_daily: forecast daily deltas, first on last_date + 1
    pred_cumulative,  \* pred_cumulative: forecast cumulative values
    deaths,       \* one area's cumulative deaths column of data
    dcfg,         \* DeathsModel's self.lag and self.period
    dm_last_date, \* DeathsModel's self.last_date: its own cutoff day
    cfr,          \* cfr: the area's ratio returned by calculate_cfr
    dm_rolled,    \* DeathsModel's pred_daily after the rolling means
    dm_pred_daily,      \* DeathsModel's pred_daily for the area
    dm_pred_cumulative,  \* DeathsModel's pred_cumulative for the area
    data,         \* data: the cases and deaths tables of every group
    lib,          \* what lowess and least_squares return on each area's series
    cm,           \* the result dictionaries of the CasesModel instance
    dm,           \* the result dictionaries of the DeathsModel instance
    prev_run,     \* input and results of the previous run of the pipeline
    run_no        \* number of the current run of the pipeline

repairVars == <<raw, fixedCol, flagged>>
smoothVars == <<col, last_date, lowess_par, smoothed>>
areaVars == <<cfg, train, bounds, p0, params, y_pred, pred_daily, pred_cumulative,
              pred_index, x_pred>>

deathsVars == <<deaths, dcfg, dm_last_date, cfr, dm_rolled, dm_pred_daily,
                dm_pred_cumulative>>

runVars == <<data, lib, cm, dm, prev_run, run_no>>

vars == <<pc, raw, fixedCol, flagged, col, last_date, lowess_par, smoothed,
          cfg, train, bounds, p0, params, y_pred, pred_daily, pred_cumulative,
          deaths, dcfg, cfr, dm_rolled, dm_pred_daily, dm_pred_cumulative,
          pred_index, x_pred, dm_last_date, data, lib, cm, dm, prev_run, run_no>>

----------------------------------------------------------------------------
(* Bounds of the model *)

MaxLen == 5        \* longest raw column given to the repair
MaxVal == 3        \* largest cumulative count in a raw column
NDays == 17        \* days of history in a cases column
ShortDays == 3     \* days of history in a column of a young table
MaxFirst == 2      \* largest first-day count of a cases column
MaxGrowth == 2     \* largest daily increment of a cases column
MantissaBits == 8  \* significant bits kept by a float operation
MaxPred == 2       \* longest forecast horizon n_pred
MaxLn == 2         \* largest number of days of growth L_n_max
NDeltas == 3       \* forecast days of the reconstruction check
MaxLag == 2        \* largest lag between cases and deaths
MaxPeriod == 2     \* largest window of the ratio

----------------------------------------------------------------------------
(* Integer and float helpers *)

Abs(x) == IF x < 0 THEN -x ELSE x

Sign(x) == IF x < 0 THEN -1 ELSE IF x > 0 THEN 1 ELSE 0

RECURSIVE GCD(_, _)
GCD(a, b) == IF b = 0 THEN a ELSE GCD(b, a % b)

\* floor division for any sign of n, d > 0
FloorDiv(n, d) == IF n >= 0 THEN n \div d ELSE -((-n + d - 1) \div d)

NaN == <<0, 0>>
Inf == <<1, 0>>

Norm(n, d) ==
    IF d = 0 THEN <<Sign(n), 0>>
    ELSE LET s == IF d < 0 THEN -1 ELSE 1
             g == GCD(Abs(n), Abs(d))
         IN  <<(s * n) \div g, (s * d) \div g>>

R(i) == <<i, 1>>

IsNaN(a) == a = NaN
IsFinite(a) == a[2] # 0

RAdd(a, b) ==
    IF IsNaN(a) \/ IsNaN(b) THEN NaN
    ELSE IF a[2] = 0 /\ b[2] = 0 THEN (IF a[1] = b[1] THEN a ELSE NaN)
    ELSE IF a[2] = 0 THEN a
    ELSE IF b[2] = 0 THEN b
    ELSE Norm(a[1] * b[2] + b[1] * a[2], a[2] * b[2])

RNeg(a) == <<-a[1], a[2]>>
RSub(a, b) == RAdd(a, RNeg(b))
RMul(a, b) == Norm(a[1] * b[1], a[2] * b[2])
RDiv(a, b) == Norm(a[1] * b[2] * (IF b[1] < 0 THEN -1 ELSE 1), a[2] * Abs(b[1]))

\* IEEE comparisons: every comparison with NaN is false
RLt(a, b) ==
    /\ ~IsNaN(a) /\ ~IsNaN(b)
    /\ IF a[2] = 0 /\ b[2] = 0 THEN a[1] < b[1]
       ELSE a[1] * b[2] < b[1] * a[2]
RLe(a, b) == ~IsNaN(a) /\ ~IsNaN(b) /\ (a = b \/ RLt(a, b))

\* numpy round(0) of a finite float: nearest integer, ties to the even one
RoundHalfEven(a) ==
    LET f == FloorDiv(a[1], a[2])
        r == a[1] - f * a[2]
    IN  IF 2 * r < a[2] THEN f
        ELSE IF 2 * r > a[2] THEN f + 1
        ELSE IF f % 2 = 0 THEN f ELSE f + 1

RECURSIVE Pow2(_)
Pow2(k) == IF k = 0 THEN 1 ELSE 2 * Pow2(k - 1)

\* least k >= 0 with n * 2^k >= d * 2^(MantissaBits - 1)
RECURSIVE ScaleUp(_, _)
ScaleUp(n, d) ==
    IF n >= d * Pow2(MantissaBits - 1) THEN 0 ELSE 1 + ScaleUp(2 * n, d)

\* least j >= 0 with n < d * 2^(MantissaBits + j)
RECURSIVE ScaleDown(_, _)
ScaleDown(n, d) ==
    IF n < d * Pow2(MantissaBits) THEN 0 ELSE 1 + ScaleDown(n, 2 * d)

\* the float nearest to a positive rational n / d: MantissaBits significant
\* bits, ties to even (IEEE round-to-nearest)
FlPos(n, d) ==
    IF n >= d * Pow2(MantissaBits)
    THEN LET j == ScaleDown(n, d)
         IN  Norm(RoundHalfEven(<<n, d * Pow2(j)>>) * Pow2(j), 1)
    ELSE LET k == ScaleUp(n, d)
         IN  Norm(RoundHalfEven(<<n * Pow2(k), d>>), Pow2(k))

\* rounding of the exact result of one float operation. float64 keeps 53
\* significant bits, so the integers handled here are exact; a result that is
\* not an integer is rounded to MantissaBits significant bits
Fl(a) ==
    IF ~IsFinite(a) \/ a[2] = 1 THEN a
    ELSE IF a[1] > 0 THEN FlPos(a[1], a[2])
    ELSE RNeg(FlPos(-a[1], a[2]))

FAdd(a, b) == Fl(RAdd(a, b))
FSub(a, b) == Fl(RSub(a, b))
FMul(a, b) == Fl(RMul(a, b))
FDiv(a, b) == Fl(RDiv(a, b))

RECURSIVE SeqsUpTo(_, _)
SeqsUpTo(S, n) ==
    IF n = 0 THEN {<<>>}
    ELSE LET prev == SeqsUpTo(S, n - 1)
         IN  prev \cup {Append(q, x) : q \in {p \in prev : Len(p) = n - 1}, x \in S}

Last(q) == q[Len(q)]

NonDecreasing(q) == \A i, j \in 1..Len(q) : i < j => q[i] <= q[j]

----------------------------------------------------------------------------
(* Values of the variables a notebook section does not use *)

NoSeries == [first |-> 0, vals |-> <<>>]
NoLowess == [v1 |-> NaN, v2 |-> NaN, split |-> 0]

SmoothIdle ==
    col = <<>> /\ last_date = 0 /\ lowess_par = NoLowess /\ smoothed = NoSeries

NoCfg == [n_train |-> 0, n_pred |-> 0, L_n_min |-> 0, L_n_max |-> 0]

AreaIdle ==
    /\ cfg = NoCfg /\ train = NoSeries /\ bounds = <<>> /\ p0 = <<>>
    /\ params = <<>> /\ y_pred = <<>> /\ pred_daily = <<>> /\ pred_cumulative = <<>>
    /\ pred_index = <<>> /\ x_pred = <<>>

RepairIdle == raw = <<>> /\ fixedCol = <<>> /\ flagged = -1

NoDcfg == [lag |-> 0, period |-> 0]

RunIdle ==
    data = <<>> /\ lib = <<>> /\ cm = <<>> /\ dm = <<>> /\ prev_run = <<>> /\ run_no = 0

DeathsIdle ==
    /\ deaths = <<>> /\ dcfg = NoDcfg /\ dm_last_date = 0 /\ cfr = NaN
    /\ dm_rolled = <<>> /\ dm_pred_daily = <<>> /\ dm_pred_cumulative = <<>>

----------------------------------------------------------------------------
(* SeriesRepairer: the "fixing all bad data" cells *)

\* Series.cummax()
RECURSIVE MaxUpTo(_, _)
MaxUpTo(q, i) ==
    IF i = 1 THEN q[1]
    ELSE LET m == MaxUpTo(q, i - 1) IN IF q[i] > m THEN q[i] ELSE m

\* mutant: the running maximum looks one day ahead
cummax_ahead(q) ==
    [i \in 1..Len(q) |-> MaxUpTo(q, IF i < Len(q) THEN i + 1 ELSE i)]

cummax(q) == [i \in 1..Len(q) |-> MaxUpTo(q, i)]

\* mutant: compares with the previous day only, not with the running maximum
BadMask_prev(q) == [i \in 1..Len(q) |-> i > 1 /\ q[i] < q[i - 1]]

\* mask = world_deaths < world_deaths.cummax()
BadMask(q) == [i \in 1..Len(q) |-> q[i] < cummax(q)[i]]

\* mutant: the day after a flagged value is masked too
MaskCol_next(q, m) ==
    [i \in 1..Len(q) |-> IF m[i] \/ (i > 1 /\ m[i - 1]) THEN NaN ELSE R(q[i])]

\* world_deaths.mask(mask): flagged values become NaN
MaskCol(q, m) == [i \in 1..Len(q) |-> IF m[i] THEN NaN ELSE R(q[i])]

\* Series.interpolate(): linear between the nearest valid neighbours,
\* a trailing run takes the last valid value, a leading run stays NaN
InterpolateAt(f, k) ==
    IF ~IsNaN(f[k]) THEN f[k]
    ELSE LET before == {i \in 1..(k - 1) : ~IsNaN(f[i])}
             after  == {j \in (k + 1)..Len(f) : ~IsNaN(f[j])}
         IN  IF before = {} THEN NaN
             ELSE LET i == CHOOSE x \in before : \A y \in before : y <= x
                  IN  IF after = {} THEN f[i]
                      ELSE LET j == CHOOSE x \in after : \A y \in after : x <= y
                           IN  RAdd(f[i], RDiv(RMul(RSub(f[j], f[i]), R(k - i)),
                                               R(j - i)))

\* mutant: fillna(0) in place of interpolate()
interpolate_zero(f) == [k \in 1..Len(f) |-> IF IsNaN(f[k]) THEN R(0) ELSE f[k]]

interpolate(f) == [k \in 1..Len(f) |-> InterpolateAt(f, k)]

\* .round(0).astype('int64'); astype raises on a non-finite value
CanAsInt(f) == \A k \in 1..Len(f) : IsFinite(f[k])

RoundAsInt(f) == [k \in 1..Len(f) |-> RoundHalfEven(f[k])]

fix_bad_data(q) == RoundAsInt(interpolate(MaskCol(q, BadMask(q))))

CountTrue(m) == Cardinality({i \in 1..Len(m) : m[i]})

RawColumns == SeqsUpTo(0..MaxVal, MaxLen) \ {<<>>}

RepairInit ==
    /\ SmoothIdle
    /\ RunIdle
    /\ AreaIdle
    /\ DeathsIdle
    /\ pc = "raw"
    /\ raw \in RawColumns
    /\ fixedCol = <<>>
    /\ flagged = -1

\* mask = world_deaths < world_deaths.cummax()
\* world_deaths_fixed = world_deaths.mask(mask).interpolate().round(0).astype('int64')
FixBadData ==
    /\ pc = "raw"
    /\ IF CanAsInt(interpolate(MaskCol(raw, BadMask(raw))))
       THEN fixedCol' = fix_bad_data(raw) /\ pc' = "fixed"
       ELSE fixedCol' = fixedCol /\ pc' = "error"
    /\ UNCHANGED <<raw, flagged>>
    /\ UNCHANGED smoothVars
    /\ UNCHANGED areaVars
    /\ UNCHANGED deathsVars
    /\ UNCHANGED runVars

\* mask = world_deaths_fixed < world_deaths_fixed.cummax(); mask.sum().sum()
VerifyFixed ==
    /\ pc = "fixed"
    /\ flagged' = CountTrue(BadMask(fixedCol))
    /\ pc' = "verified"
    /\ UNCHANGED <<raw, fixedCol>>
    /\ UNCHANGED smoothVars
    /\ UNCHANGED areaVars
    /\ UNCHANGED deathsVars
    /\ UNCHANGED runVars

RepairNext == FixBadData \/ VerifyFixed

SpecRepair == RepairInit /\ [][RepairNext]_vars

----------------------------------------------------------------------------
(* TrendSmoother: CasesModel.smooth *)

MIN_OBS == 15

\* s = s[:self.last_date]
Truncate(s) == SubSeq(s, 1, last_date)

\* last_zero_date = s[s == 0].index[-1]
LastZeroDate(s) ==
    CHOOSE i \in 1..Len(s) : s[i] = 0 /\ \A j \in 1..Len(s) : s[j] = 0 => j <= i

\* first day of s once the leading zero days are dropped (s.loc[last_zero_date:])
FirstKept(s) == IF s[1] = 0 THEN LastZeroDate(s) ELSE 1

\* mutant: the first missing difference is filled with 0, not with s.iloc[0]
s_daily_fill0(s) ==
    IF s[1] = 0
    THEN LET z == LastZeroDate(s)
         IN  [first |-> z + 1,
              vals  |-> [i \in 1..(Len(s) - z) |-> R(s[z + i] - s[z + i - 1])]]
    ELSE [first |-> 1,
          vals  |-> [i \in 1..Len(s) |->
                        IF i = 1 THEN R(0) ELSE R(s[i] - s[i - 1])]]

\* s_daily: s.diff().dropna() from the last zero day, or
\* s.diff().fillna(s.iloc[0]) when the first value is not 0
s_daily(s) ==
    IF s[1] = 0
    THEN LET z == LastZeroDate(s)
         IN  [first |-> z + 1,
              vals  |-> [i \in 1..(Len(s) - z) |-> R(s[z + i] - s[z + i - 1])]]
    ELSE [first |-> 1,
          vals  |-> [i \in 1..Len(s) |->
                        IF i = 1 THEN R(s[1]) ELSE R(s[i] - s[i - 1])]]

\* Series.cumsum() in float arithmetic
RECURSIVE CumFrom(_, _, _)
CumFrom(q, i, acc) ==
    IF i > Len(q) THEN <<>>
    ELSE LET a == FAdd(acc, q[i]) IN <<a>> \o CumFrom(q, i + 1, a)

cumsum(q) == CumFrom(q, 1, R(0))

\* y_pred = lowess(y, x, frac=frac, is_sorted=True, return_sorted=False):
\* the library's curve, one value per delta; here any two-level curve
LowessValues == {<<-1, 1>>, <<0, 1>>, <<1, 2>>, <<1, 1>>, <<3, 1>>}

LowessCurves(n) ==
    {[v1 |-> a, v2 |-> b, split |-> k] :
        a \in LowessValues, b \in LowessValues, k \in 0..(n - 1)}

lowess(par, n) == [i \in 1..n |-> IF i <= par.split THEN par.v1 ELSE par.v2]

\* mutant: the values of the curve are not clipped
clip0_off(q) == [i \in 1..Len(q) |-> q[i]]

\* Series.clip(0)
clip0(q) == [i \in 1..Len(q) |-> IF RLt(q[i], R(0)) THEN R(0) ELSE q[i]]

\* s_pred_cumulative *= last_actual / last_smoothed
align(cum, last_actual) ==
    LET ratio == FDiv(R(last_actual), Last(cum))
    IN  [i \in 1..Len(cum) |-> FMul(cum[i], ratio)]

\* mutant: the smoothed values are used also when their total is 0
smooth_always(s0, par) ==
    LET s   == Truncate(s0)
        sd  == s_daily(s)
        raw_cum == [first |-> sd.first, vals |-> cumsum(sd.vals)]
    IN  IF Len(sd.vals) < MIN_OBS THEN raw_cum
        ELSE LET cum == cumsum(clip0(lowess(par, Len(sd.vals))))
             IN  [first |-> sd.first, vals |-> align(cum, Last(s))]

\* CasesModel.smooth(s) when lowess returns the curve par
smooth(s0, par) ==
    LET s   == Truncate(s0)
        sd  == s_daily(s)
        raw_cum == [first |-> sd.first, vals |-> cumsum(sd.vals)]
    IN  IF Len(sd.vals) < MIN_OBS THEN raw_cum
        ELSE LET cum == cumsum(clip0(lowess(par, Len(sd.vals))))
             IN  IF Last(cum) = R(0) THEN raw_cum
                 ELSE [first |-> sd.first, vals |-> align(cum, Last(s))]

\* which return statement of smooth is taken
SmoothPath(s0, par) ==
    LET sd == s_daily(Truncate(s0))
    IN  IF Len(sd.vals) < MIN_OBS THEN "short"
        ELSE IF Last(cumsum(clip0(lowess(par, Len(sd.vals))))) = R(0)
             THEN "zero_total"
             ELSE "lowess"

\* a cases column after PrepareData: z zero days, then a first count and a
\* constant daily increment
CasesColumn(n, z, a, b) ==
    [i \in 1..n |-> IF i <= z THEN 0 ELSE a + b * (i - z - 1)]

CasesColumns ==
    UNION {{CasesColumn(n, z, a, b) : z \in 0..n, a \in 1..MaxFirst, b \in 0..MaxGrowth} :
              n \in {ShortDays, NDays}}

SmoothInit ==
    /\ RepairIdle
    /\ RunIdle
    /\ DeathsIdle
    /\ AreaIdle
    /\ pc = "data"
    /\ col \in CasesColumns
    /\ last_date \in {Len(col) - 1, Len(col)}
    /\ lowess_par = NoLowess
    /\ smoothed = NoSeries

\* smoothed = self.smooth(s) on a column too short for LOWESS
SmoothShort ==
    /\ pc = "data"
    /\ SmoothPath(col, NoLowess) = "short"
    /\ smoothed' = smooth(col, NoLowess)
    /\ pc' = "smoothed"
    /\ UNCHANGED <<col, last_date, lowess_par>>
    /\ UNCHANGED repairVars
    /\ UNCHANGED deathsVars
    /\ UNCHANGED areaVars
    /\ UNCHANGED runVars

\* smoothed = self.smooth(s) on a column with at least MIN_OBS deltas
SmoothLowess ==
    /\ pc = "data"
    /\ SmoothPath(col, NoLowess) # "short"
    /\ \E par \in LowessCurves(Len(s_daily(Truncate(col)).vals)) :
          /\ lowess_par' = par
          /\ smoothed' = smooth(col, par)
    /\ pc' = "smoothed"
    /\ UNCHANGED <<col, last_date>>
    /\ UNCHANGED repairVars
    /\ UNCHANGED deathsVars
    /\ UNCHANGED areaVars
    /\ UNCHANGED runVars

SmoothNext == SmoothShort \/ SmoothLowess

SpecSmooth == SmoothInit /\ [][SmoothNext]_vars

----------------------------------------------------------------------------
(* BoundsEstimator, CurveFitter and Forecaster: the body of the loop of
   CasesModel.run for one area *)

AllNaN == [L |-> NaN, x0 |-> NaN, k |-> NaN, v |-> NaN, s |-> NaN]

ParamNames == {"L", "x0", "k", "v", "s"}

\* a decimal literal of the source as a float
Dec(n, d) == Fl(Norm(n, d))

\* get_train: smoothed.iloc[-self.n_train:]
get_train(sm) ==
    LET n == Len(sm.vals)
        k == IF cfg.n_train = 0 \/ cfg.n_train > n THEN n ELSE cfg.n_train
    IN  [first |-> sm.first + (n - k), vals |-> SubSeq(sm.vals, n - k + 1, n)]

\* s.pct_change()[-1]
pct_change_last(s) ==
    IF Len(s) < 2 THEN NaN
    ELSE FSub(FDiv(s[Len(s)], s[Len(s) - 1]), R(1))

\* x ** n for an integer n >= 0 (numpy: anything ** 0 is 1.0)
RECURSIVE Pow(_, _)
Pow(x, n) == IF n = 0 THEN R(1) ELSE FMul(Pow(x, n - 1), x)

\* CasesModel.get_L_limits
get_L_limits(s) ==
    LET last_val == Last(s)
        last_pct == FAdd(pct_change_last(s), R(1))
        L_min == FMul(last_val, Pow(last_pct, cfg.L_n_min))
        L_max == FAdd(FMul(last_val, Pow(last_pct, cfg.L_n_max)), R(1))
        L0 == FAdd(FDiv(FSub(L_max, L_min), R(2)), L_min)
    IN  <<L_min, L_max, L0>>

\* mutant: the upper bound of s is one above the last value, like the one of L
get_bounds_p0_s1(s) ==
    LET lim == get_L_limits(s)
        s_max == FAdd(Last(s), R(1))
    IN  [bounds |->
            [lower |-> [L |-> lim[1], x0 |-> R(-50), k |-> Dec(1, 100),
                        v |-> Dec(1, 100), s |-> R(0)],
             upper |-> [L |-> lim[2], x0 |-> R(50), k |-> Dec(1, 2),
                        v |-> R(2), s |-> s_max]],
         p0 |-> [L |-> lim[3], x0 |-> R(0), k |-> Dec(1, 10), v |-> Dec(1, 10),
                 s |-> FDiv(s_max, R(2))]]

\* CasesModel.get_bounds_p0
get_bounds_p0(s) ==
    LET lim == get_L_limits(s)
        s_max == FAdd(Last(s), Dec(1, 100))
    IN  [bounds |->
            [lower |-> [L |-> lim[1], x0 |-> R(-50), k |-> Dec(1, 100),
                        v |-> Dec(1, 100), s |-> R(0)],
             upper |-> [L |-> lim[2], x0 |-> R(50), k |-> Dec(1, 2),
                        v |-> R(2), s |-> s_max]],
         p0 |-> [L |-> lim[3], x0 |-> R(0), k |-> Dec(1, 10), v |-> Dec(1, 10),
                 s |-> FDiv(s_max, R(2))]]

\* get_L_limits(s, n1, n2) of notebook 07, the function the class method was
\* taken from; it replaces an undefined L_min by the limits 0, 1, 0
nb07_get_L_limits(s, n1, n2) ==
    LET last_val == Last(s)
        last_pct == FAdd(pct_change_last(s), R(1))
        L_min == FMul(last_val, Pow(last_pct, n1))
        L_max == FAdd(FMul(last_val, Pow(last_pct, n2)), R(1))
        L0 == FAdd(FDiv(FSub(L_max, L_min), R(2)), L_min)
    IN  IF IsNaN(L_min) THEN <<R(0), R(1), R(0)>> ELSE <<L_min, L_max, L0>>

\* get_bounds_p0(s, n1, n2) of notebook 07
nb07_get_bounds_p0(s, n1, n2) ==
    LET lim == nb07_get_L_limits(s, n1, n2)
        s_max == FAdd(Last(s), Dec(1, 100))
    IN  [bounds |->
            [lower |-> [L |-> lim[1], x0 |-> R(-50), k |-> Dec(1, 100),
                        v |-> Dec(1, 100), s |-> R(0)],
             upper |-> [L |-> lim[2], x0 |-> R(50), k |-> Dec(1, 10),
                        v |-> R(2), s |-> s_max]],
         p0 |-> [L |-> lim[3], x0 |-> R(0), k |-> Dec(1, 10), v |-> Dec(1, 10),
                 s |-> FDiv(s_max, R(2))]]

\* least_squares(..., p0, bounds=bounds) raises ValueError unless every lower
\* bound is strictly below its upper bound, p0 lies within the bounds and the
\* residuals at p0 are finite (they are not when a guess is inf or NaN)
Feasible(b, g) ==
    \A f \in ParamNames :
        /\ IsFinite(g[f])
        /\ RLt(b.lower[f], b.upper[f])
        /\ RLe(b.lower[f], g[f])
        /\ RLe(g[f], b.upper[f])

\* res.x: parameters within the bounds; L and s at either end of theirs
FitResults(b, g) ==
    {[L |-> l, x0 |-> g.x0, k |-> g.k, v |-> g.v, s |-> sv] :
        l \in {b.lower.L, b.upper.L}, sv \in {b.lower.s, b.upper.s}}

\* (1 + np.exp(-k * (x - x0))) ** (1 / v) on consecutive x: with k > 0 and
\* v > 0 it is at least 1 (inf when exp overflows) and never grows with x
DenValues == {Inf, R(3), R(1)}

DenCurves(n) ==
    {q \in SeqsUpTo(DenValues, n) :
        Len(q) = n /\ \A i \in 1..(n - 1) : RLe(q[i + 1], q[i])}

\* general_logistic_shift(x, L, x0, k, v, s), den the power of the line above
general_logistic_shift(den, L, s) == FAdd(FDiv(FSub(L, s), den), s)

\* pd.date_range(start=start, periods=periods): consecutive days
date_range(start, periods) == [i \in 1..periods |-> start + i - 1]

\* np.arange(a, b): the integers a, ..., b - 1
arange(a, b) == [i \in 1..(b - a) |-> a + i - 1]

\* mutant: the evaluation starts on the first point after the training window
get_x_pred_late(n_train) == arange(n_train, n_train + cfg.n_pred)

\* get_pred_daily: x_pred = np.arange(n_train - 1, n_train + self.n_pred)
get_x_pred(n_train) == arange(n_train - 1, n_train + cfg.n_pred)

\* y_pred = self.model(x_pred, *params) on the n_pred + 1 points of x_pred
model_eval(dens, par) ==
    [i \in 1..Len(dens) |-> general_logistic_shift(dens[i], par.L, par.s)]

\* mutant: the differences are taken backwards
get_pred_daily_rev(y) == [i \in 1..(Len(y) - 1) |-> FSub(y[i], y[i + 1])]

\* get_pred_daily: np.diff(y_pred)
get_pred_daily(y) == [i \in 1..(Len(y) - 1) |-> FSub(y[i + 1], y[i])]

\* mutant: the deltas are cut to integers instead of rounded
round0_trunc(q) ==
    [i \in 1..Len(q) |->
        R(IF q[i][1] >= 0 THEN q[i][1] \div q[i][2] ELSE -((-q[i][1]) \div q[i][2]))]

\* Series.round(0)
round0(q) == [i \in 1..Len(q) |-> R(RoundHalfEven(q[i]))]

\* mutant: every delta of an area that is not fitted is -1
zeros_minus(n) == [i \in 1..n |-> R(-1)]

\* np.zeros(self.n_pred)
zeros(n) == [i \in 1..n |-> R(0)]

\* mutant: the forecast is not put on top of the last actual value
get_pred_cumulative_from0(s, pd) == cumsum(pd)

\* get_pred_cumulative: pred_daily.cumsum() + s.loc[self.last_date]
get_pred_cumulative(s, pd) ==
    LET last_actual_value == R(s[last_date])
        c == cumsum(pd)
    IN  [i \in 1..Len(pd) |-> FAdd(c[i], last_actual_value)]

\* Series.astype('int') of finite floats: truncation
astype_int(q) ==
    [i \in 1..Len(q) |->
        IF q[i][1] >= 0 THEN q[i][1] \div q[i][2] ELSE -((-q[i][1]) \div q[i][2])]

\* the two-level LOWESS curves used when the whole loop body is explored
AreaLowessCurves(n) ==
    {[v1 |-> R(1), v2 |-> R(1), split |-> 0],
     [v1 |-> R(0), v2 |-> R(0), split |-> 0],
     [v1 |-> R(0), v2 |-> R(1), split |-> n - 1],
     [v1 |-> <<1, 2>>, v2 |-> R(3), split |-> n - 1]}

\* a young area with steadily accelerating cases
SyntheticColumn == <<0, 0, 0, 10, 20, 35, 55, 80, 110, 145, 185>>

AreaColumns ==
    {SyntheticColumn} \cup
    UNION {{CasesColumn(n, z, a, b) : z \in 0..n, a \in {1, MaxFirst}, b \in {0, MaxGrowth}} :
              n \in {ShortDays, NDays}}

Cfgs ==
    {[n_train |-> nt, n_pred |-> np, L_n_min |-> ln[1], L_n_max |-> ln[2]] :
        nt \in {0, MIN_OBS - 1, MIN_OBS, NDays},
        np \in {1, MaxPred},
        ln \in {<<0, 1>>, <<1, MaxLn>>}}

AreaInit ==
    /\ RepairIdle
    /\ RunIdle
    /\ DeathsIdle
    /\ pc = "data"
    /\ col \in AreaColumns
    /\ last_date \in {Len(col) - 1, Len(col)}
    /\ cfg \in Cfgs
    /\ lowess_par = NoLowess
    /\ smoothed = NoSeries
    /\ train = NoSeries /\ bounds = <<>> /\ p0 = <<>> /\ params = <<>>
    /\ y_pred = <<>> /\ pred_daily = <<>> /\ pred_cumulative = <<>>
    /\ pred_index = date_range(last_date + 1, cfg.n_pred)
    /\ x_pred = <<>>

\* smoothed = self.smooth(s); train = self.get_train(smoothed)
AreaSmooth ==
    /\ pc = "data"
    /\ \E par \in IF SmoothPath(col, NoLowess) = "short" THEN {NoLowess}
                  ELSE AreaLowessCurves(Len(s_daily(Truncate(col)).vals)) :
          /\ lowess_par' = par
          /\ smoothed' = smooth(col, par)
          /\ train' = get_train(smooth(col, par))
    /\ pc' = "smoothed"
    /\ UNCHANGED <<col, last_date, cfg, bounds, p0, params, y_pred, pred_index, x_pred,
                   pred_daily, pred_cumulative>>
    /\ UNCHANGED repairVars
    /\ UNCHANGED deathsVars
    /\ UNCHANGED runVars

\* n_train < MIN_OBS: no fit, undefined parameters, n_pred zero deltas
AreaSkip ==
    /\ pc = "smoothed"
    /\ Len(train.vals) < MIN_OBS
    /\ bounds' = [lower |-> AllNaN, upper |-> AllNaN]
    /\ p0' = AllNaN
    /\ params' = AllNaN
    /\ pred_daily' = astype_int(zeros(cfg.n_pred))
    /\ pred_cumulative' = astype_int(get_pred_cumulative(col, zeros(cfg.n_pred)))
    /\ pc' = "predicted"
    /\ UNCHANGED <<col, last_date, lowess_par, smoothed, cfg, train, y_pred,
                   pred_index, x_pred>>
    /\ UNCHANGED repairVars
    /\ UNCHANGED deathsVars
    /\ UNCHANGED runVars

\* bounds, p0 = self.get_bounds_p0(train)
AreaBounds ==
    /\ pc = "smoothed"
    /\ Len(train.vals) >= MIN_OBS
    /\ bounds' = get_bounds_p0(train.vals).bounds
    /\ p0' = get_bounds_p0(train.vals).p0
    /\ pc' = "bounded"
    /\ UNCHANGED <<col, last_date, lowess_par, smoothed, cfg, train, params,
                   y_pred, pred_daily, pred_cumulative, pred_index, x_pred>>
    /\ UNCHANGED repairVars
    /\ UNCHANGED deathsVars
    /\ UNCHANGED runVars

\* params = self.train_model(...); pred_daily = self.get_pred_daily(...).round(0);
\* pred_cumulative = self.get_pred_cumulative(s, pred_daily)
AreaFit ==
    /\ pc = "bounded"
    /\ Feasible(bounds, p0)
    /\ x_pred' = get_x_pred(Len(train.vals))
    /\ \E par \in FitResults(bounds, p0),
          dens \in DenCurves(Len(get_x_pred(Len(train.vals)))) :
          LET y  == model_eval(dens, par)
              pd == round0(get_pred_daily(y))
          IN  /\ params' = par
              /\ y_pred' = y
              /\ pred_daily' = astype_int(pd)
              /\ pred_cumulative' = astype_int(get_pred_cumulative(col, pd))
    /\ pc' = "predicted"
    /\ UNCHANGED <<col, last_date, lowess_par, smoothed, cfg, train, bounds, p0,
                   pred_index>>
    /\ UNCHANGED repairVars
    /\ UNCHANGED deathsVars
    /\ UNCHANGED runVars

\* least_squares raises ValueError: the exception leaves run
AreaFitRaises ==
    /\ pc = "bounded"
    /\ ~Feasible(bounds, p0)
    /\ pc' = "raised"
    /\ UNCHANGED smoothVars
    /\ UNCHANGED areaVars
    /\ UNCHANGED repairVars
    /\ UNCHANGED deathsVars
    /\ UNCHANGED runVars

\* bounds, p0 = get_bounds_p0(s_smooth) of notebook 07 on the same series,
\* with the days of growth of the configuration as n1 and n2 (s[-1] raises
\* on an empty series)
Nb07Bounds ==
    /\ pc = "smoothed"
    /\ Len(train.vals) >= 1
    /\ bounds' = nb07_get_bounds_p0(train.vals, cfg.L_n_min, cfg.L_n_max).bounds
    /\ p0' = nb07_get_bounds_p0(train.vals, cfg.L_n_min, cfg.L_n_max).p0
    /\ pc' = "nb07_bounded"
    /\ UNCHANGED <<col, last_date, lowess_par, smoothed, cfg, train, params,
                   y_pred, pred_daily, pred_cumulative, pred_index, x_pred>>
    /\ UNCHANGED repairVars
    /\ UNCHANGED deathsVars
    /\ UNCHANGED runVars

AreaNext ==
    AreaSmooth \/ AreaSkip \/ AreaBounds \/ AreaFit \/ AreaFitRaises \/ Nb07Bounds

SpecArea == AreaInit /\ [][AreaNext]_vars

----------------------------------------------------------------------------
(* Forecast reconstruction: rounding of the daily deltas and accumulation on
   the last actual value, for cases (CasesModel) and deaths (DeathsModel) *)

\* raw daily deltas, in tenths
DeltaTenths == {-7, 5, 15, 25, 89, 124, 152}

DeltaSeqs == {q \in SeqsUpTo(DeltaTenths, NDeltas) : Len(q) = NDeltas}

LastActuals == {0, 7, 1000}

\* values of a model whose consecutive differences are the deltas q
RECURSIVE ModelValues(_, _, _)
ModelValues(q, i, acc) ==
    IF i > Len(q) THEN <<>>
    ELSE <<RAdd(acc, Norm(q[i], 10))>> \o ModelValues(q, i + 1, RAdd(acc, Norm(q[i], 10)))

ForecastInit ==
    /\ RepairIdle
    /\ RunIdle
    /\ pc = "model"
    /\ \E a \in LastActuals : col = <<a>>
    /\ \E b \in LastActuals : deaths = <<b>>
    /\ last_date = 1
    /\ cfg = [NoCfg EXCEPT !.n_pred = NDeltas]
    /\ lowess_par = NoLowess /\ smoothed = NoSeries /\ train = NoSeries
    /\ bounds = <<>> /\ p0 = <<>> /\ params = <<>>
    /\ \E q \in DeltaSeqs :
          /\ y_pred = <<R(0)>> \o ModelValues(q, 1, R(0))
          /\ dm_rolled = [i \in 1..Len(q) |-> Fl(Norm(q[i], 10))]
    /\ pred_daily = <<>> /\ pred_cumulative = <<>>
    /\ pred_index = date_range(last_date + 1, NDeltas)
    /\ x_pred = <<>>
    /\ dcfg = NoDcfg /\ dm_last_date = 1 /\ cfr = NaN
    /\ dm_pred_daily = <<>> /\ dm_pred_cumulative = <<>>

\* CasesModel.run: pred_daily = self.get_pred_daily(n_train, params).round(0);
\* pred_cumulative = self.get_pred_cumulative(s, pred_daily); stored as int
CasesReconstruct ==
    /\ pc = "model"
    /\ LET pd == round0(get_pred_daily(y_pred))
       IN  /\ pred_daily' = astype_int(pd)
           /\ pred_cumulative' = astype_int(get_pred_cumulative(col, pd))
    /\ pc' = "cases"
    /\ UNCHANGED <<col, last_date, lowess_par, smoothed, cfg, train, bounds, p0,
                   params, y_pred, pred_index, x_pred>>
    /\ UNCHANGED repairVars
    /\ UNCHANGED deathsVars
    /\ UNCHANGED runVars

\* cumsum of a Series of int
RECURSIVE IntCumFrom(_, _, _)
IntCumFrom(q, i, acc) ==
    IF i > Len(q) THEN <<>>
    ELSE <<acc + q[i]>> \o IntCumFrom(q, i + 1, acc + q[i])

\* DeathsModel.run: pred_daily = pred_daily.round(0).astype("int");
\* last_deaths = self.data[group_deaths].loc[self.last_date];
\* pred_cumulative = pred_daily.cumsum() + last_deaths
DeathsReconstruct ==
    /\ pc = "cases"
    /\ LET pd == astype_int(round0(dm_rolled))
           last_deaths == deaths[dm_last_date]
       IN  /\ dm_pred_daily' = pd
           /\ dm_pred_cumulative' =
                 [i \in 1..Len(pd) |-> IntCumFrom(pd, 1, 0)[i] + last_deaths]
    /\ pc' = "deaths"
    /\ UNCHANGED <<deaths, dcfg, dm_last_date, cfr, dm_rolled>>
    /\ UNCHANGED smoothVars
    /\ UNCHANGED areaVars
    /\ UNCHANGED <<raw, fixedCol, flagged>>
    /\ UNCHANGED runVars

ForecastNext == CasesReconstruct \/ DeathsReconstruct

SpecForecast == ForecastInit /\ [][ForecastNext]_vars

----------------------------------------------------------------------------
(* RatioModel: DeathsModel.calculate_cfr for one area *)

CfrDays == MaxLag + MaxPeriod + 1

CfrColumns ==
    {CasesColumn(CfrDays, z, a, b) :
        z \in 0..CfrDays, a \in 1..MaxFirst, b \in 0..MaxGrowth}

\* Series.fillna(c): only NaN is replaced
fillna(x, c) == IF IsNaN(x) THEN c ELSE x

\* mutant: the deaths window ends lag days before last_date, like the cases one
calculate_cfr_lagged(c, d) ==
    LET last_day_cases == dm_last_date - dcfg.lag
        first_day_cases == last_day_cases - dcfg.period
        deaths_total == d[last_day_cases] - d[first_day_cases]
        cases_total == c[last_day_cases] - c[first_day_cases]
    IN  fillna(FDiv(R(deaths_total), R(cases_total)), Dec(1, 100))

\* DeathsModel.calculate_cfr, one column of the group
calculate_cfr(c, d) ==
    LET first_day_deaths == dm_last_date - dcfg.period
        last_day_cases == dm_last_date - dcfg.lag
        first_day_cases == last_day_cases - dcfg.period
        deaths_total == d[dm_last_date] - d[first_day_deaths]
        cases_total == c[last_day_cases] - c[first_day_cases]
    IN  fillna(FDiv(R(deaths_total), R(cases_total)), Dec(1, 100))

CfrInit ==
    /\ RepairIdle
    /\ RunIdle
    /\ AreaIdle
    /\ pc = "data"
    /\ col \in CfrColumns
    /\ deaths \in CfrColumns
    /\ last_date = CfrDays
    /\ dm_last_date = CfrDays
    /\ dcfg \in [lag : 1..MaxLag, period : 1..MaxPeriod]
    /\ lowess_par = NoLowess /\ smoothed = NoSeries
    /\ cfr = NaN
    /\ dm_rolled = <<>> /\ dm_pred_daily = <<>> /\ dm_pred_cumulative = <<>>

\* self.cfr = self.calculate_cfr()
CalculateCfr ==
    /\ pc = "data"
    /\ cfr' = calculate_cfr(col, deaths)
    /\ pc' = "cfr"
    /\ UNCHANGED <<deaths, dcfg, dm_last_date, dm_rolled, dm_pred_daily,
                   dm_pred_cumulative>>
    /\ UNCHANGED smoothVars
    /\ UNCHANGED areaVars
    /\ UNCHANGED <<raw, fixedCol, flagged>>
    /\ UNCHANGED runVars

CfrNext == CalculateCfr

SpecCfr == CfrInit /\ [][CfrNext]_vars

----------------------------------------------------------------------------
(* The pipeline over all areas: CasesModel.run *)

GROUPS == <<"world", "usa">>

\* the columns (areas) of the tables of each group, in column order
GroupAreas == [world |-> <<"w1", "w2">>, usa |-> <<"u1">>]

AllAreas == {"w1", "w2", "u1"}

\* {}: a dictionary without keys
EmptyDict == <<>>

\* the sequence q and the function f themselves, with their values computed
Tup(q) == q \o <<>>
Eager(f) == f @@ <<>>

\* F(x), x being computed once
With(x, F(_)) == CHOOSE r \in {F(v) : v \in {x}} : TRUE

\* a pandas Series: its index (days) and its values
Dated(first, q) == [index |-> Tup(date_range(first, Len(q))), vals |-> q]

Min(S) == CHOOSE x \in S : \A y \in S : x <= y

\* res.x of least_squares as answered by the library for this area
fit_params(b, g, f) ==
    CHOOSE par \in FitResults(b, g) :
        /\ par.L = (IF f.L_upper THEN b.upper.L ELSE b.lower.L)
        /\ par.s = (IF f.s_upper THEN b.upper.s ELSE b.lower.s)

\* the body of the loop of CasesModel.run for the column s of one area, lb
\* being what lowess and least_squares return on it; raised: least_squares
\* raises ValueError
area_run(s, lb) ==
    With([first |-> smooth(s, lb.lowess).first, vals |-> Tup(smooth(s, lb.lowess).vals)],
         LAMBDA sm :
    With(Tup(get_train(sm).vals), LAMBDA tr :
        IF Len(tr) < MIN_OBS
        THEN [raised |-> FALSE, smoothed |-> sm,
              bounds |-> [lower |-> AllNaN, upper |-> AllNaN],
              p0 |-> AllNaN, params |-> AllNaN,
              pred_daily |-> Tup(astype_int(zeros(cfg.n_pred))),
              pred_cumulative |->
                  Tup(astype_int(get_pred_cumulative(s, zeros(cfg.n_pred))))]
        ELSE With(get_bounds_p0(tr), LAMBDA bp :
                 IF ~Feasible(bp.bounds, bp.p0)
                 THEN [raised |-> TRUE, smoothed |-> sm, bounds |-> bp.bounds,
                       p0 |-> bp.p0, params |-> AllNaN,
                       pred_daily |-> <<>>, pred_cumulative |-> <<>>]
                 ELSE With(fit_params(bp.bounds, bp.p0, lb.fit), LAMBDA par :
                      With(Tup(round0(get_pred_daily(Tup(model_eval(lb.fit.dens, par))))),
                           LAMBDA pd :
                          [raised |-> FALSE, smoothed |-> sm,
                           bounds |-> bp.bounds, p0 |-> bp.p0, params |-> par,
                           pred_daily |-> Tup(astype_int(pd)),
                           pred_cumulative |->
                               Tup(astype_int(get_pred_cumulative(s, pd)))])))))

\* position in its group of the first area on which least_squares raises, 0
\* when there is none
FirstRaiser(res, g) ==
    LET bad == {i \in 1..Len(GroupAreas[g]) : res[GroupAreas[g][i]].raised}
    IN  IF bad = {} THEN 0 ELSE Min(bad)

\* position in GROUPS of the first group with such an area, 0 when none
RaisingGroup(res) ==
    LET bad == {gi \in 1..Len(GROUPS) : FirstRaiser(res, GROUPS[gi]) # 0}
    IN  IF bad = {} THEN 0 ELSE Min(bad)

\* Series.round() of a float; NaN and inf stay
round_float(x) == IF IsFinite(x) THEN R(RoundHalfEven(x)) ELSE x

SetOf(q) == {q[i] : i \in 1..Len(q)}

\* mutant: an area that is not fitted gets no entries
loop_entries_fitted(res, g, upto) ==
    LET done == {a \in {GroupAreas[g][i] : i \in 1..upto} : res[a].params # AllNaN}
    IN  [smoothed |-> [a \in done |-> Dated(res[a].smoothed.first, res[a].smoothed.vals)],
         bounds |-> [a \in done |-> res[a].bounds],
         p0 |-> [a \in done |-> res[a].p0],
         params |-> [a \in done |-> res[a].params],
         pred_daily |-> [a \in done |-> [index |-> pred_index, vals |-> res[a].pred_daily]],
         pred_cumulative |->
             [a \in done |-> [index |-> pred_index, vals |-> res[a].pred_cumulative]]]

\* the dictionary entries self.X[gk][area] written by the loop for the
\* areas of group g up to position upto
loop_entries(res, g, upto) ==
    LET done == {GroupAreas[g][i] : i \in 1..upto}
    IN  [smoothed |-> [a \in done |-> Dated(res[a].smoothed.first, res[a].smoothed.vals)],
         bounds |-> [a \in done |-> res[a].bounds],
         p0 |-> [a \in done |-> res[a].p0],
         params |-> [a \in done |-> res[a].params],
         pred_daily |-> [a \in done |-> [index |-> pred_index, vals |-> res[a].pred_daily]],
         pred_cumulative |->
             [a \in done |-> [index |-> pred_index, vals |-> res[a].pred_cumulative]]]

\* pd.DataFrame(self.smoothed[gk]).fillna(0).astype('int'): the rows are the
\* union of the days of the Series; a day an area has no value for gets 0
smoothed_to_df(sm) ==
    With(UNION {SetOf(sm[a].index) : a \in DOMAIN sm}, LAMBDA days :
    With(Tup(date_range(IF days = {} THEN 1 ELSE Min(days), Cardinality(days))),
         LAMBDA idx :
        Eager([a \in DOMAIN sm |->
            [index |-> idx,
             vals |-> Tup([i \in 1..Len(idx) |->
                          LET k == idx[i] - sm[a].index[1] + 1
                          IN  IF Len(sm[a].vals) = 0 \/ k < 1 THEN 0
                              ELSE astype_int(<<sm[a].vals[k]>>)[1]])]])))

\* convert_to_df: the dictionaries of one group as DataFrames
convert_to_df(e) ==
    [e EXCEPT
        !.smoothed = smoothed_to_df(e.smoothed),
        !.bounds = [a \in DOMAIN e.bounds |->
                       [lower |-> [e.bounds[a].lower EXCEPT !.L = round_float(@)],
                        upper |-> [e.bounds[a].upper EXCEPT !.L = round_float(@)]]],
        !.p0 = [a \in DOMAIN e.p0 |-> [e.p0[a] EXCEPT !.L = round_float(@)]]]

LoopTables == {"smoothed", "bounds", "p0", "params", "pred_daily", "pred_cumulative"}

CombinedTables ==
    {"combined_daily", "combined_cumulative", "combined_daily_s",
     "combined_cumulative_s"}

GroupIndex(g) == CHOOSE i \in 1..Len(GROUPS) : GROUPS[i] = g

\* init_dictionaries: one empty dictionary per group for the results of the
\* loop, an empty dictionary for each combined table
init_dictionaries ==
    [f \in LoopTables \cup CombinedTables |->
        IF f \in LoopTables THEN [g \in SetOf(GROUPS) |-> EmptyDict] ELSE EmptyDict]

\* d[key] = value for every key of e
put(d, e) ==
    Eager([a \in (DOMAIN d) \cup (DOMAIN e) |-> IF a \in DOMAIN e THEN e[a] ELSE d[a]])

\* Series.diff() with the first, missing, difference replaced by fill; as int
diff_fill(q, fill) ==
    Tup([i \in 1..Len(q) |-> IF i = 1 THEN fill ELSE q[i] - q[i - 1]])

\* self.data[gk][:self.last_date] of one area
actual_upto(a, day) == Dated(1, SubSeq(data.cases[a], 1, day))

\* pd.concat((x, y)) of two Series
concat(x, y) == [index |-> x.index \o y.index, vals |-> x.vals \o y.vals]

\* combine_actual_with_pred for the group with tables smoothed and pred
combine_actual_with_pred(smoothed_df, pred_df) ==
    With(Eager([a \in DOMAIN pred_df |->
                   concat(actual_upto(a, last_date), pred_df[a])]), LAMBDA df_comb :
    With(Eager([a \in DOMAIN pred_df |-> concat(smoothed_df[a], pred_df[a])]),
         LAMBDA df_comb_smooth :
        [combined_cumulative |-> df_comb,
         combined_daily |->
             [a \in DOMAIN df_comb |->
                 [index |-> df_comb[a].index,
                  vals |-> diff_fill(df_comb[a].vals, df_comb[a].vals[1])]],
         combined_cumulative_s |-> df_comb_smooth,
         combined_daily_s |->
             [a \in DOMAIN df_comb_smooth |->
                 [index |-> df_comb_smooth[a].index,
                  vals |-> diff_fill(df_comb_smooth[a].vals, df_comb[a].vals[1])]]]))

\* the dictionaries of the instance when run returns or is left by the
\* exception of least_squares; res holds the loop body's result for each area
cm_run(res) ==
    LET base == init_dictionaries
        rg == RaisingGroup(res)
        upto(g) == IF rg = GroupIndex(g) THEN FirstRaiser(res, g) - 1
                   ELSE Len(GroupAreas[g])
        filled(g) == Eager([f \in LoopTables |->
                               put(base[f][g], loop_entries(res, g, upto(g))[f])])
        group(g) == IF rg # 0 /\ GroupIndex(g) > rg
                    THEN [f \in LoopTables |-> base[f][g]]
                    ELSE IF rg = GroupIndex(g) THEN filled(g)
                    ELSE With(filled(g), LAMBDA e : convert_to_df(e))
    IN  With(Eager([g \in SetOf(GROUPS) |-> Eager(group(g))]), LAMBDA groups :
        With(IF rg # 0 THEN <<>>
             ELSE Eager([g \in SetOf(GROUPS) |->
                            combine_actual_with_pred(groups[g].smoothed,
                                                     groups[g].pred_cumulative)]),
             LAMBDA comb :
            Eager([f \in LoopTables \cup CombinedTables |->
                IF f \in LoopTables THEN Eager([g \in SetOf(GROUPS) |-> groups[g][f]])
                ELSE IF rg # 0 THEN base[f]
                ELSE Eager([g \in SetOf(GROUPS) |-> comb[g][f]])])))

----------------------------------------------------------------------------
(* The pipeline over all areas: DeathsModel.run *)

RollWindow == 14
RollPasses == 5

\* s[d:]: the rows of a Series from day d on (its index is increasing)
from_day(s, d) ==
    LET keep == {i \in 1..Len(s.index) : s.index[i] >= d}
    IN  IF keep = {} THEN [index |-> <<>>, vals |-> <<>>]
        ELSE [index |-> SubSeq(s.index, Min(keep), Len(s.index)),
              vals |-> SubSeq(s.vals, Min(keep), Len(s.vals))]

\* s.iloc[:n]
head(s, n) ==
    LET k == IF n < Len(s.vals) THEN n ELSE Len(s.vals)
    IN  [index |-> SubSeq(s.index, 1, k), vals |-> SubSeq(s.vals, 1, k)]

\* sum of the values q[i], ..., q[j] that are not NaN, and their number
RECURSIVE WindowSum(_, _, _)
WindowSum(q, i, j) ==
    IF i > j THEN R(0)
    ELSE IF IsNaN(q[i]) THEN WindowSum(q, i + 1, j)
    ELSE FAdd(q[i], WindowSum(q, i + 1, j))

WindowCount(q, i, j) == Cardinality({k \in i..j : ~IsNaN(q[k])})

\* Series.rolling(RollWindow, min_periods=1, center=True).mean(): the window
\* of row i is rows i - RollWindow / 2 to i + RollWindow / 2 - 1; NaN is skipped
rolling_mean(q) ==
    Tup([i \in 1..Len(q) |->
        LET lo == IF i - (RollWindow \div 2) < 1 THEN 1 ELSE i - (RollWindow \div 2)
            hi == IF i + (RollWindow \div 2) - 1 > Len(q) THEN Len(q)
                  ELSE i + (RollWindow \div 2) - 1
        IN  IF WindowCount(q, lo, hi) = 0 THEN NaN
            ELSE FDiv(WindowSum(q, lo, hi), R(WindowCount(q, lo, hi)))])

RECURSIVE rolled(_, _)
rolled(q, passes) ==
    IF passes = 0 THEN q
    ELSE With(rolling_mean(q), LAMBDA r : rolled(r, passes - 1))

\* mutant: the window of cases starts lag - 1 days before the cutoff
cfr_start_date_late == dm_last_date - dcfg.lag + 1

\* cfr_start_date = self.last_date - pd.Timedelta(f'{self.lag}D')
cfr_start_date == dm_last_date - dcfg.lag

\* mutant: the ratio is taken off the cases, not multiplied with them
deaths_candidates_minus(daily_cases_smoothed, ratio) ==
    With(head(from_day(daily_cases_smoothed, cfr_start_date), cfg.n_pred), LAMBDA w :
        [index |-> w.index,
         vals |-> Tup([i \in 1..Len(w.vals) |-> FSub(R(w.vals[i]), FAdd(ratio, R(1)))])])

\* pred_daily = daily_cases_smoothed[cfr_start_date:] * self.cfr[group];
\* pred_daily = pred_daily.iloc[:self.cm.n_pred], for one area
deaths_candidates(daily_cases_smoothed, ratio) ==
    With(head(from_day(daily_cases_smoothed, cfr_start_date), cfg.n_pred), LAMBDA w :
        [index |-> w.index,
         vals |-> Tup([i \in 1..Len(w.vals) |-> FMul(R(w.vals[i]), ratio)])])

\* mutant: the forecast starts one higher when the instance has run before
last_deaths_carry(a) ==
    data.deaths[a][dm_last_date] + (IF dm.cfr = EmptyDict THEN 0 ELSE 1)

\* last_deaths = self.data[group_deaths].loc[self.last_date], one area
last_deaths(a) == data.deaths[a][dm_last_date]

\* the loop body of DeathsModel.run for one area; raised: the new index has
\* another length than the candidates, or astype("int") meets NaN or inf
deaths_area_run(a, g, ratio) ==
    With(deaths_candidates(cm.combined_daily_s[g][a], ratio), LAMBDA cand :
        LET new_index == cm.pred_daily[g][a].index
        IN  IF Len(cand.vals) # Len(new_index)
            THEN [raised |-> TRUE]
            ELSE With(rolled(cand.vals, RollPasses), LAMBDA smooth_daily :
                 IF ~CanAsInt(smooth_daily)
                 THEN [raised |-> TRUE]
                 ELSE With(Tup(astype_int(round0(smooth_daily))), LAMBDA pd :
                      [raised |-> FALSE,
                       candidates |-> [index |-> new_index, vals |-> cand.vals],
                       pred_daily |-> [index |-> new_index, vals |-> pd],
                       pred_cumulative |->
                           [index |-> new_index,
                            vals |-> Tup([i \in 1..Len(pd) |->
                                             IntCumFrom(pd, 1, 0)[i] + last_deaths(a)])]])))

\* the attributes of a DeathsModel instance after __init__ (cfr is set by run);
\* candidates keeps the local pred_daily of run as it is before the smoothing
dm_init ==
    [cfr |-> EmptyDict, candidates |-> EmptyDict, pred_daily |-> EmptyDict,
     pred_cumulative |-> EmptyDict, combined_daily |-> EmptyDict,
     combined_cumulative |-> EmptyDict]

\* DeathsModel.combine_actual_with_pred for the table df_pred of one group
dm_combine_actual_with_pred(df_pred) ==
    With(Eager([a \in DOMAIN df_pred |->
                   concat(Dated(1, SubSeq(data.deaths[a], 1, dm_last_date)),
                          df_pred[a])]), LAMBDA df_comb :
        [combined_cumulative |-> df_comb,
         combined_daily |->
             Eager([a \in DOMAIN df_comb |->
                 [index |-> df_comb[a].index,
                  vals |-> diff_fill(df_comb[a].vals, df_comb[a].vals[1])]])])

\* DeathsModel.run on the instance old: the attributes when run returns or is
\* left by an exception, which happens in the first group with a raising area
dm_run(old) ==
    With(Eager([a \in AllAreas |-> calculate_cfr(data.cases[a], data.deaths[a])]),
         LAMBDA ratio :
    With(Eager([g \in SetOf(GROUPS) |->
                   Eager([a \in SetOf(GroupAreas[g]) |->
                             deaths_area_run(a, g, ratio[a])])]), LAMBDA res :
        LET bad == {gi \in 1..Len(GROUPS) :
                       \E a \in SetOf(GroupAreas[GROUPS[gi]]) : res[GROUPS[gi]][a].raised}
            rg == IF bad = {} THEN 0 ELSE Min(bad)
            done == {g \in SetOf(GROUPS) : rg = 0 \/ GroupIndex(g) < rg}
            stored(f) ==
                put(old[f], [g \in done |->
                                Eager([a \in SetOf(GroupAreas[g]) |-> res[g][a][f]])])
        IN  With(Eager([g \in DOMAIN stored("pred_cumulative") |->
                           dm_combine_actual_with_pred(stored("pred_cumulative")[g])]),
                 LAMBDA comb :
            [raised |-> rg # 0,
             dm |-> [cfr |-> Eager([g \in SetOf(GROUPS) |->
                                Eager([a \in SetOf(GroupAreas[g]) |-> ratio[a]])]),
                     candidates |-> stored("candidates"),
                     pred_daily |-> stored("pred_daily"),
                     pred_cumulative |-> stored("pred_cumulative"),
                     combined_daily |->
                         IF rg # 0 THEN old.combined_daily
                         ELSE put(old.combined_daily,
                                  [g \in DOMAIN comb |-> comb[g].combined_daily]),
                     combined_cumulative |->
                         IF rg # 0 THEN old.combined_cumulative
                         ELSE put(old.combined_cumulative,
                                  [g \in DOMAIN comb |-> comb[g].combined_cumulative])]])))

----------------------------------------------------------------------------
(* The pipeline over all areas: cm.run() then dm.run(), run twice *)

RunCfgs ==
    {[n_train |-> MIN_OBS, n_pred |-> MaxPred, L_n_min |-> 1, L_n_max |-> MaxLn]}

\* what least_squares and the model answer for an area: L and s at one end of
\* their bounds, and the denominators of the model on x_pred
FitAnswers ==
    {[L_upper |-> FALSE, s_upper |-> TRUE,
      dens |-> [i \in 1..(MaxPred + 1) |-> IF i = 1 THEN Inf ELSE R(1)]],
     [L_upper |-> TRUE, s_upper |-> FALSE,
      dens |-> [i \in 1..(MaxPred + 1) |-> IF i = 1 THEN R(3) ELSE R(1)]]}

\* the LOWESS curves of a column: none when smooth returns before lowess
RunLowess(c, curves) ==
    IF SmoothPath(c, NoLowess) = "short" THEN {NoLowess}
    ELSE {par \in AreaLowessCurves(Len(s_daily(Truncate(c)).vals)) :
             <<par.v1, par.v2>> \in curves}

\* an area: its cases and deaths columns and the answers of the libraries
Profiles(cols, dcols, curves, fits) ==
    UNION {{[cases |-> c, deaths |-> d, lowess |-> l, fit |-> f] :
               d \in dcols, l \in RunLowess(c, curves), f \in fits} : c \in cols}

AnyCurve == {<<R(1), R(1)>>, <<R(0), R(0)>>, <<R(0), R(1)>>, <<(<<1, 2>>), R(3)>>}

\* data holds one day more than the cutoff of CasesModel.
\* the area the claims follow: cases from day 1 or after two zero days
W1Profiles ==
    Profiles({CasesColumn(NDays + 1, z, 1, MaxGrowth) : z \in {0, 2}},
             {CasesColumn(NDays + 1, 0, 1, 1)}, AnyCurve,
             {f \in FitAnswers : ~f.L_upper})

\* its neighbour in the group: a regular area, one whose smoothed series
\* makes least_squares raise, a young one, and one without new cases
W2Profiles ==
    Profiles({CasesColumn(NDays + 1, 0, MaxFirst, 1),
              CasesColumn(NDays + 1, NDays - ShortDays, 1, 1),
              CasesColumn(NDays + 1, 0, 1, 0)},
             {CasesColumn(NDays + 1, 0, 1, 1)},
             {<<R(1), R(1)>>, <<R(0), R(1)>>},
             {f \in FitAnswers : f.L_upper})

U1Profiles ==
    Profiles({CasesColumn(NDays + 1, 1, 1, MaxGrowth),
              CasesColumn(NDays + 1, NDays - ShortDays, 1, 1)},
             {CasesColumn(NDays + 1, 1, 1, 0)},
             {<<(<<1, 2>>), R(3)>>},
             {f \in FitAnswers : ~f.L_upper})

\* data and the library answers for the three areas
make_data(w1, w2, u1) ==
    [cases |-> [w1 |-> w1.cases, w2 |-> w2.cases, u1 |-> u1.cases],
     deaths |-> [w1 |-> w1.deaths, w2 |-> w2.deaths, u1 |-> u1.deaths]]

make_lib(w1, w2, u1) ==
    [w1 |-> [lowess |-> w1.lowess, fit |-> w1.fit],
     w2 |-> [lowess |-> w2.lowess, fit |-> w2.fit],
     u1 |-> [lowess |-> u1.lowess, fit |-> u1.fit]]

\* cm = CasesModel(...); dm = DeathsModel(..., cm=cm, lag, period)
RunInit ==
    /\ RepairIdle
    /\ pc = "start"
    /\ col = <<>> /\ lowess_par = NoLowess /\ smoothed = NoSeries
    /\ train = NoSeries /\ bounds = <<>> /\ p0 = <<>> /\ params = <<>>
    /\ y_pred = <<>> /\ pred_daily = <<>> /\ pred_cumulative = <<>> /\ x_pred = <<>>
    /\ deaths = <<>> /\ cfr = NaN
    /\ dm_rolled = <<>> /\ dm_pred_daily = <<>> /\ dm_pred_cumulative = <<>>
    /\ last_date = NDays
    /\ cfg \in RunCfgs
    /\ pred_index = date_range(last_date + 1, cfg.n_pred)
    /\ dcfg \in [lag : 1..MaxLag, period : {MaxPeriod}]
    /\ dm_last_date \in {last_date - 1, last_date, last_date + 1}
    /\ \E w1 \in W1Profiles, w2 \in W2Profiles, u1 \in U1Profiles :
          /\ data = make_data(w1, w2, u1)
          /\ lib = make_lib(w1, w2, u1)
    /\ cm = EmptyDict
    /\ dm = dm_init
    /\ prev_run = <<>>
    /\ run_no = 1

\* the loop body's result for every area
loop_results ==
    [w1 |-> area_run(data.cases.w1, lib.w1),
     w2 |-> area_run(data.cases.w2, lib.w2),
     u1 |-> area_run(data.cases.u1, lib.u1)]

\* cm.run(): returns, or is left by the exception of least_squares
CmRun ==
    /\ pc = "start"
    /\ \E res \in {loop_results} :
          /\ cm' = cm_run(res)
          /\ pc' = IF RaisingGroup(res) = 0 THEN "cm_done" ELSE "cm_raised"
    /\ UNCHANGED <<data, lib, dm, prev_run, run_no>>
    /\ UNCHANGED smoothVars
    /\ UNCHANGED areaVars
    /\ UNCHANGED repairVars
    /\ UNCHANGED deathsVars

\* dm.run(): returns, or is left by an exception
DmRun ==
    /\ pc = "cm_done"
    /\ \E r \in {dm_run(dm)} :
          /\ dm' = r.dm
          /\ pc' = IF r.raised THEN "dm_raised" ELSE "dm_done"
    /\ UNCHANGED <<data, lib, cm, prev_run, run_no>>
    /\ UNCHANGED smoothVars
    /\ UNCHANGED areaVars
    /\ UNCHANGED repairVars
    /\ UNCHANGED deathsVars

\* the cells are run a second time on the same instances, after data was
\* loaded again: the same, or with another column for the area w2 (the
\* libraries answer the same on the same column)
RunAgain ==
    /\ pc \in {"cm_raised", "dm_done", "dm_raised"}
    /\ run_no = 1
    /\ prev_run' = [data |-> data, lib |-> lib, cm |-> cm, dm |-> dm, pc |-> pc]
    /\ \E w2 \in W2Profiles :
          /\ w2.cases = data.cases.w2 => w2.lowess = lib.w2.lowess
          /\ data' = [cases |-> [data.cases EXCEPT !.w2 = w2.cases],
                      deaths |-> [data.deaths EXCEPT !.w2 = w2.deaths]]
          /\ lib' = [lib EXCEPT !.w2 = [lowess |-> w2.lowess, fit |-> w2.fit]]
    /\ run_no' = 2
    /\ pc' = "start"
    /\ UNCHANGED <<cm, dm>>
    /\ UNCHANGED smoothVars
    /\ UNCHANGED areaVars
    /\ UNCHANGED repairVars
    /\ UNCHANGED deathsVars

RunNext == CmRun \/ DmRun \/ RunAgain

SpecRun == RunInit /\ [][RunNext]_vars

----------------------------------------------------------------------------
(* Claims on the repair *)

(* C1: the repaired column is non-decreasing (for all i < j, S[i] <= S[j]),
   and re-running the invalidity check on it flags zero points. *)
C1_RepairedNonDecreasing ==
    /\ pc \in {"fixed", "verified"} => NonDecreasing(fixedCol)
    /\ pc = "verified" => flagged = 0

C1_Witness ==
    /\ pc = "verified"
    /\ CountTrue(BadMask(raw)) >= 2
    /\ fixedCol # raw

(* C2 as stated: the repaired column's last value equals the raw column's
   last value, also when the raw last point is below the running maximum. *)
C2_LastValuePreserved ==
    pc \in {"fixed", "verified"} => Last(fixedCol) = Last(raw)

(* C2 amended: the repaired column's last value equals the maximum of the
   raw column; it equals the raw last value exactly when the raw last point
   is not below the running maximum. *)
C2_LastValueIsRunningMax ==
    pc \in {"fixed", "verified"} =>
        /\ Last(fixedCol) = MaxUpTo(raw, Len(raw))
        /\ (Last(fixedCol) = Last(raw)) <=> ~BadMask(raw)[Len(raw)]

C2_Witness ==
    /\ pc = "fixed"
    /\ BadMask(raw)[Len(raw)]
    /\ Last(fixedCol) > Last(raw)

(* C20: a point is flagged exactly when its value is strictly below the
   maximum of the values up to and including itself, so a value equal to the
   running maximum is not flagged; every unflagged point has the same value
   in the repaired column as in the raw one. *)
C20_RepairIsMinimal ==
    /\ \A i \in 1..Len(raw) :
          BadMask(raw)[i] <=> (\E j \in 1..i : raw[j] > raw[i])
    /\ pc \in {"fixed", "verified"} =>
          \A i \in 1..Len(raw) : ~BadMask(raw)[i] => fixedCol[i] = raw[i]

C20_Witness ==
    /\ pc = "fixed"
    /\ \E i, j, k \in 1..Len(raw) :
          /\ i < j /\ j < k
          /\ raw[j] < raw[i] /\ BadMask(raw)[j] /\ fixedCol[j] # raw[j]
          /\ raw[k] = raw[i] /\ ~BadMask(raw)[k] /\ fixedCol[k] = raw[k]

----------------------------------------------------------------------------
(* Claims on the smoother *)

LastActual == Truncate(col)[last_date]

(* C3: anchoring invariant. For every column with at least MIN_OBS daily
   deltas, the last value of the series returned by smooth equals the last
   actual cumulative value exactly, on the LOWESS path and on the zero-total
   fallback path. *)
C3_AnchoredExactly ==
    (pc = "smoothed" /\ SmoothPath(col, lowess_par) # "short") =>
        Last(smoothed.vals) = R(LastActual)

(* C4: with fewer than MIN_OBS daily deltas after dropping the leading zero
   days, smooth returns the cumulative sum of the raw deltas: one value for
   each kept day, equal to the original cumulative value of that day. *)
C4_ShortIsIdentity ==
    (pc = "smoothed" /\ Len(s_daily(Truncate(col)).vals) < MIN_OBS) =>
        /\ lowess_par = NoLowess
        /\ Len(smoothed.vals) = last_date - smoothed.first + 1
        /\ smoothed.first = (IF col[1] = 0 THEN FirstKept(Truncate(col)) + 1 ELSE 1)
        /\ \A i \in 1..Len(smoothed.vals) :
              smoothed.vals[i] = R(col[smoothed.first + i - 1])

C4_Witness ==
    /\ pc = "smoothed"
    /\ col[1] = 0
    /\ Len(smoothed.vals) = MIN_OBS - 1
    /\ smoothed.vals[1] # Last(smoothed.vals)

\* the total of the clipped LOWESS curve is 0
ZeroTotal ==
    /\ Len(s_daily(Truncate(col)).vals) >= MIN_OBS
    /\ \A i \in 1..Len(s_daily(Truncate(col)).vals) :
          RLe(lowess(lowess_par, Len(s_daily(Truncate(col)).vals))[i], R(0))

(* C21: zero-total fallback. When the clipped LOWESS values sum to exactly
   0, smooth returns the raw cumulative values of the kept days; the
   rescaling by last_actual / last_smoothed is never done with a zero
   divisor, so no value of a returned series is NaN or infinite. *)
C21_ZeroTotalFallback ==
    pc = "smoothed" =>
        /\ ZeroTotal =>
              \A i \in 1..Len(smoothed.vals) :
                  smoothed.vals[i] = R(col[smoothed.first + i - 1])
        /\ \A i \in 1..Len(smoothed.vals) : IsFinite(smoothed.vals[i])

C21_Witness ==
    /\ pc = "smoothed"
    /\ ZeroTotal
    /\ RLt(lowess_par.v1, R(0))
    /\ smoothed.vals[1] # Last(smoothed.vals)

----------------------------------------------------------------------------
(* Claims on the loop body of CasesModel.run *)

Skipped == pc = "predicted" /\ Len(train.vals) < MIN_OBS

Fitted == pc = "predicted" /\ Len(train.vals) >= MIN_OBS

\* C5: an area whose training window has fewer than MIN_OBS smoothed points is
\* not fitted: the model is never evaluated, the five parameters, their bounds
\* and the initial guess are all undefined, there are exactly n_pred daily
\* deltas, all 0, and the cumulative forecast equals the last actual value of
\* the column on every forecast day
C5_SkipPath ==
    Skipped =>
        /\ y_pred = <<>>
        /\ params = AllNaN /\ p0 = AllNaN
        /\ bounds = [lower |-> AllNaN, upper |-> AllNaN]
        /\ Len(pred_daily) = cfg.n_pred
        /\ \A i \in 1..Len(pred_daily) : pred_daily[i] = 0
        /\ Len(pred_cumulative) = cfg.n_pred
        /\ \A i \in 1..Len(pred_cumulative) : pred_cumulative[i] = col[last_date]

C5_Witness ==
    /\ Skipped
    /\ cfg.n_pred = MaxPred
    /\ Len(train.vals) = MIN_OBS - 1
    /\ col[last_date] > 0

\* C7: the cumulative forecast of the first forecast day is never below the
\* last actual cumulative value
C7_FirstForecastNotBelowLastActual ==
    pc = "predicted" => pred_cumulative[1] >= col[last_date]

C7_Witness ==
    /\ Fitted
    /\ RLt(params.L, params.s)
    /\ RLt(y_pred[2], y_pred[1])
    /\ pred_cumulative[1] = col[last_date]

GuessWithinBounds(f) == RLe(bounds.lower[f], p0[f]) /\ RLe(p0[f], bounds.upper[f])

PrevIsZero ==
    Len(train.vals) >= 2 /\ train.vals[Len(train.vals) - 1] = R(0)

\* C10: when the previous smoothed value of the training series is zero, the
\* bounds of L are [0, 1] and its initial guess is 0
C10_DegenerateGrowthCollapses ==
    (pc \in {"bounded", "raised"} /\ PrevIsZero) =>
        /\ bounds.lower.L = R(0)
        /\ bounds.upper.L = R(1)
        /\ p0.L = R(0)

----------------------------------------------------------------------------
(* Claims on the forecast reconstruction and on the ratio *)

\* n is an integer nearest to the float x
Nearest(x, n) == RLe(R(2 * n - 1), RMul(R(2), x)) /\ RLe(RMul(R(2), x), R(2 * n + 1))

\* cum is prev plus an integer nearest to the raw delta
StepFrom(prev, cum, delta) == Nearest(delta, cum - prev)

\* C6: every cumulative forecast value is the previous one, the raw last actual
\* value of the column for the first day, plus the raw daily delta rounded to
\* the nearest integer; the deaths forecast is rebuilt the same way on the last
\* actual deaths value
C6_Reconstruction ==
    /\ pc \in {"cases", "deaths"} =>
          /\ Len(pred_cumulative) = Len(y_pred) - 1
          /\ \A i \in 1..Len(pred_cumulative) :
                StepFrom(IF i = 1 THEN col[last_date] ELSE pred_cumulative[i - 1],
                         pred_cumulative[i], get_pred_daily(y_pred)[i])
    /\ pc = "deaths" =>
          /\ Len(dm_pred_cumulative) = Len(dm_rolled)
          /\ \A i \in 1..Len(dm_pred_cumulative) :
                StepFrom(IF i = 1 THEN deaths[dm_last_date]
                                   ELSE dm_pred_cumulative[i - 1],
                         dm_pred_cumulative[i], dm_rolled[i])

\* last actual 1000 and raw deltas 12.4, 8.9, 15.2 give 1012, 1021, 1036
C6_Witness ==
    /\ pc = "deaths"
    /\ col[last_date] = 1000 /\ deaths[dm_last_date] = 1000
    /\ dm_rolled = <<Dec(124, 10), Dec(89, 10), Dec(152, 10)>>
    /\ pred_cumulative = <<1012, 1021, 1036>>
    /\ dm_pred_cumulative = <<1012, 1021, 1036>>

CasesTotal ==
    col[dm_last_date - dcfg.lag] - col[dm_last_date - dcfg.lag - dcfg.period]

DeathsTotal == deaths[dm_last_date] - deaths[dm_last_date - dcfg.period]

\* C8: when the lagged cases window has a total of 0, the ratio is the
\* fallback constant, whatever the deaths total of its window is
C8_RatioFallback ==
    (pc = "cfr" /\ CasesTotal = 0) => cfr = Dec(1, 100)

----------------------------------------------------------------------------
(* Claims on the shape of the forecast *)

\* C19: for a fitted area the model is evaluated on exactly n_pred + 1
\* consecutive integers starting at n_train - 1, there are exactly n_pred daily
\* deltas dated the n_pred consecutive days after the cutoff, and the first
\* delta is model(n_train) - model(n_train - 1), rounded
C19_ForecastShape ==
    Fitted =>
        /\ Len(x_pred) = cfg.n_pred + 1
        /\ x_pred[1] = Len(train.vals) - 1
        /\ \A i \in 2..Len(x_pred) : x_pred[i] = x_pred[i - 1] + 1
        /\ Len(y_pred) = Len(x_pred)
        /\ Len(pred_daily) = cfg.n_pred
        /\ Len(pred_index) = cfg.n_pred
        /\ \A i \in 1..Len(pred_index) : pred_index[i] = last_date + i
        /\ x_pred[2] = Len(train.vals)
        /\ pred_daily[1] = RoundHalfEven(FSub(y_pred[2], y_pred[1]))

C19_Witness ==
    /\ Fitted
    /\ cfg.n_pred = MaxPred
    /\ last_date < Len(col)
    /\ Len(train.vals) = MIN_OBS
    /\ pred_daily[1] > 0

----------------------------------------------------------------------------
(* Claims on the end-to-end scenario *)

\* the synthetic area trained on its first 10 days has been forecast
ScenarioDone == pc = "predicted" /\ col = SyntheticColumn /\ last_date = 10

\* C18 as stated: the cumulative forecast of the synthetic area trained on its
\* first 10 days increases from each forecast day to the next and is never
\* below the actual value of day 10
C18_ScenarioIncreasing ==
    ScenarioDone =>
        /\ \A i \in 1..Len(pred_cumulative) : pred_cumulative[i] >= col[10]
        /\ \A i \in 2..Len(pred_cumulative) :
              pred_cumulative[i] > pred_cumulative[i - 1]

\* C18 amended: the synthetic area has 7 smoothed points on day 10, fewer than
\* MIN_OBS, so it is not fitted and its cumulative forecast is the actual
\* value of day 10, 145, on every forecast day
C18_ScenarioFlat ==
    ScenarioDone =>
        /\ Len(smoothed.vals) = 7
        /\ Skipped
        /\ Len(pred_cumulative) = cfg.n_pred
        /\ \A i \in 1..Len(pred_cumulative) : pred_cumulative[i] = 145

C18_Witness ==
    /\ ScenarioDone
    /\ cfg.n_pred = MaxPred
    /\ smoothed.vals[7] = R(145)
    /\ pred_cumulative[1] = pred_cumulative[2]

----------------------------------------------------------------------------
(* Claims on the pipeline over all areas *)

\* the run of CasesModel is over: it returned, or was left by an exception
CmOver == pc \in {"cm_done", "cm_raised", "dm_done", "dm_raised"}

\* the run of CasesModel returned
CmReturned == pc \in {"cm_done", "dm_done", "dm_raised"}

\* the area has an entry in table f of group g of the instance c
HasColumn(c, f, g, a) ==
    IF f \in LoopTables THEN a \in DOMAIN c[f][g]
    ELSE g \in DOMAIN c[f] /\ a \in DOMAIN c[f][g]

\* C11: failure containment.  When run of CasesModel is over, every area
\* whose own processing did not fail has its column in every output table of
\* its group, whatever happened to the other areas.
C11_FailureContained ==
    CmOver =>
        \A g \in SetOf(GROUPS) : \A a \in SetOf(GroupAreas[g]) :
            ~loop_results[a].raised =>
                \A f \in LoopTables \cup CombinedTables : HasColumn(cm, f, g, a)

\* C12: consistent schema.  After run of CasesModel has returned, the
\* columns of each of the six result tables of a group are exactly the areas
\* of the group's input table, the areas with too short a history included.
C12_ConsistentSchema ==
    CmReturned =>
        \A g \in SetOf(GROUPS) : \A f \in LoopTables :
            DOMAIN cm[f][g] = {a \in AllAreas : \E i \in 1..Len(GroupAreas[g]) :
                                                    GroupAreas[g][i] = a}

C12_Witness ==
    /\ pc = "cm_done"
    /\ cm.params.world.w2 = AllNaN
    /\ cm.params.world.w1 # AllNaN
    /\ cm.pred_daily.world.w2.vals = [i \in 1..cfg.n_pred |-> 0]

\* the second run of the pipeline is over
SecondOver == run_no = 2 /\ pc \in {"cm_raised", "dm_done", "dm_raised"}

SameColumn(c, d, f, g, a) ==
    /\ HasColumn(c, f, g, a) = HasColumn(d, f, g, a)
    /\ HasColumn(c, f, g, a) => c[f][g][a] = d[f][g][a]

\* C14: area independence.  Area w1 has the same series in both runs, the
\* other areas may differ, and run of CasesModel returned both times; the
\* column of w1 in every output table of CasesModel is the same after both.
C14_AreaIndependent ==
    (run_no = 2 /\ CmReturned /\ prev_run.pc \in {"dm_done", "dm_raised"}) =>
        \A f \in LoopTables \cup CombinedTables :
            SameColumn(cm, prev_run.cm, f, "world", "w1")

\* the value of the Series s on day d
ValueAt(s, d) == s.vals[CHOOSE p \in 1..Len(s.index) : s.index[p] = d]

\* C15: lag semantics as documented.  With the same cutoff in both models,
\* the candidate deaths of forecast day D are the smoothed daily cases of day
\* D - lag times the area's ratio.
C15_LagAsDocumented ==
    (pc = "dm_done" /\ dm_last_date = last_date) =>
        \A g \in SetOf(GROUPS) : \A a \in SetOf(GroupAreas[g]) :
            \A i \in 1..Len(dm.candidates[g][a].index) :
                LET D == dm.candidates[g][a].index[i]
                IN  dm.candidates[g][a].vals[i] =
                        FMul(R(ValueAt(cm.combined_daily_s[g][a], D - dcfg.lag)),
                             dm.cfr[g][a])

CombinedAsClaimed(tbl, actual, cutoff, forecast) ==
    /\ \A i \in 1..(Len(tbl.index) - 1) : tbl.index[i] < tbl.index[i + 1]
    /\ \A i \in 1..Len(tbl.index) :
          tbl.index[i] <= cutoff => tbl.vals[i] = actual[tbl.index[i]]
    /\ \A j \in 1..cfg.n_pred :
          \E i \in 1..Len(tbl.index) :
              tbl.index[i] = cutoff + j /\ tbl.vals[i] = forecast.vals[j]

\* the combined cumulative tables of CasesModel are as claimed
CmCombinedAsClaimed ==
    \A g \in DOMAIN cm.combined_cumulative :
        \A a \in DOMAIN cm.combined_cumulative[g] :
            CombinedAsClaimed(cm.combined_cumulative[g][a], data.cases[a],
                              last_date, cm.pred_cumulative[g][a])

\* the combined cumulative tables of DeathsModel are as claimed
DmCombinedAsClaimed ==
    \A g \in DOMAIN dm.combined_cumulative :
        \A a \in DOMAIN dm.combined_cumulative[g] :
            CombinedAsClaimed(dm.combined_cumulative[g][a], data.deaths[a],
                              dm_last_date, dm.pred_cumulative[g][a])

\* C22: combined table continuity.  In the combined cumulative table of
\* every group, of CasesModel and of DeathsModel, the dates are strictly
\* increasing with no date twice; up to and including the cutoff the values
\* are the actual input values, and on the n_pred days after the cutoff
\* they are the cumulative forecast values.
C22_CombinedContinuity ==
    /\ CmReturned => CmCombinedAsClaimed
    /\ pc = "dm_done" => DmCombinedAsClaimed

\* the bounds and guesses of x0, k and v are the constants of the claim
FixedConstants ==
    /\ bounds.lower.x0 = R(-50) /\ bounds.upper.x0 = R(50) /\ p0.x0 = R(0)
    /\ bounds.lower.k = Dec(1, 100) /\ bounds.upper.k = Dec(1, 2)
    /\ p0.k = Dec(1, 10)
    /\ bounds.lower.v = Dec(1, 100) /\ bounds.upper.v = R(2)
    /\ p0.v = Dec(1, 10)

\* C23: fixed bounds.  For every training series get_bounds_p0, the method
\* of CasesModel as well as the function of notebook 07, returns x0 in
\* [-50, 50] with guess 0, k in [0.01, 0.5] with guess 0.1 and v in
\* [0.01, 2] with guess 0.1.
C23_FixedBounds ==
    pc \in {"bounded", "nb07_bounded"} => FixedConstants

\* C24: the first point of a series of numbers is never flagged, since its
\* value is the running maximum at its own place; so not every point is
\* flagged, the interpolation has a leading anchor, no value stays
\* undefined (the conversion to integers does not raise) and the first value
\* is kept.
C24_FirstNeverFlagged ==
    /\ ~BadMask(raw)[1]
    /\ CountTrue(BadMask(raw)) < Len(raw)
    /\ pc # "error"
    /\ pc \in {"fixed", "verified"} =>
          /\ Len(fixedCol) = Len(raw)
          /\ fixedCol[1] = raw[1]

C24_Witness ==
    /\ pc = "fixed"
    /\ CountTrue(BadMask(raw)) = Len(raw) - 1
    /\ Len(raw) >= 3
    /\ fixedCol # raw

\* the cumulative cases column is non-negative and non-decreasing
MonotoneInput ==
    /\ \A i \in 1..Len(col) : col[i] >= 0
    /\ \A i \in 1..(Len(col) - 1) : col[i] <= col[i + 1]

\* C25: output monotonicity.  For every non-negative, non-decreasing
\* cumulative input the series returned by smooth is non-negative and
\* non-decreasing, whichever return statement is taken (short input,
\* zero-total fallback, anchored LOWESS curve).
C25_SmoothedMonotone ==
    (pc = "smoothed" /\ MonotoneInput) =>
        /\ \A i \in 1..Len(smoothed.vals) : RLe(R(0), smoothed.vals[i])
        /\ \A i \in 1..(Len(smoothed.vals) - 1) :
              RLe(smoothed.vals[i], smoothed.vals[i + 1])

C25_Witness ==
    /\ pc = "smoothed"
    /\ MonotoneInput
    /\ SmoothPath(col, lowess_par) = "lowess"
    /\ RLt(lowess_par.v2, R(0))
    /\ lowess_par.split >= 2
    /\ RLt(smoothed.vals[1], smoothed.vals[2])

\* the training series is non-decreasing
TrainNonDecreasing ==
    \A i \in 1..(Len(train.vals) - 1) : RLe(train.vals[i], train.vals[i + 1])

\* the fitted parameters are where the claim puts them
ParamsWithinBounds ==
    /\ RLe(bounds.lower.L, params.L)
    /\ RLe(Last(train.vals), bounds.lower.L)
    /\ RLe(params.s, FAdd(Last(train.vals), Dec(1, 100)))
    /\ RLt(R(0), params.k)
    /\ RLt(R(0), params.v)

\* C26: monotone forecast.  For every fitted area with a non-decreasing
\* training series and fitted parameters within the bounds (L >= L_min >=
\* last training value, s <= last training value + 0.01, k > 0, v > 0)
\* every rounded daily forecast delta is >= 0, and the cumulative forecast
\* never decreases and starts at or above the last actual value.
C26_MonotoneForecast ==
    (Fitted /\ TrainNonDecreasing /\ ParamsWithinBounds) =>
        /\ \A i \in 1..Len(pred_daily) : pred_daily[i] >= 0
        /\ pred_cumulative[1] >= col[last_date]
        /\ \A i \in 1..(Len(pred_cumulative) - 1) :
              pred_cumulative[i] <= pred_cumulative[i + 1]

C26_Witness ==
    /\ Fitted /\ TrainNonDecreasing /\ ParamsWithinBounds
    /\ cfg.n_pred >= 2
    /\ pred_daily[1] > 0
    /\ pred_daily[2] > 0

\* the running sum of the daily table of a group is its cumulative table
DailySumsTo(daily, cumulative) ==
    \A a \in DOMAIN cumulative :
        /\ daily[a].index = cumulative[a].index
        /\ Tup(IntCumFrom(daily[a].vals, 1, 0)) = cumulative[a].vals

\* C27: daily and cumulative tables agree.  For every group the running sum
\* of combined_daily is combined_cumulative and the running sum of
\* combined_daily_s is combined_cumulative_s; so the first row of each daily
\* table is the first row of its own cumulative table.
C27_DailyCumulativeConsistent ==
    CmReturned =>
        \A g \in DOMAIN cm.combined_cumulative :
            /\ DailySumsTo(cm.combined_daily[g], cm.combined_cumulative[g])
            /\ DailySumsTo(cm.combined_daily_s[g], cm.combined_cumulative_s[g])

\* the cases that drive the deaths forecast of area a of group g
DriverWindow(g, a) ==
    head(from_day(cm.combined_daily_s[g][a], cfr_start_date), cfg.n_pred).vals

\* the ratio of the area is finite and not negative, and so are its drivers
NonNegativeDrivers(g, a) ==
    /\ IsFinite(dm.cfr[g][a])
    /\ RLe(R(0), dm.cfr[g][a])
    /\ \A i \in 1..Len(DriverWindow(g, a)) : DriverWindow(g, a)[i] >= 0

\* C28: non-negative deaths.  For an area whose ratio is finite and not
\* negative and whose driver values in the window are not negative, every
\* daily deaths forecast (after the five rolling means and the rounding) is
\* >= 0, and the cumulative deaths forecast does not decrease and is never
\* below the last actual deaths.
C28_DeathsNonNegative ==
    pc = "dm_done" =>
        \A g \in SetOf(GROUPS) : \A a \in SetOf(GroupAreas[g]) :
            NonNegativeDrivers(g, a) =>
                /\ \A i \in 1..Len(dm.pred_daily[g][a].vals) :
                      dm.pred_daily[g][a].vals[i] >= 0
                /\ \A i \in 1..Len(dm.pred_cumulative[g][a].vals) :
                      dm.pred_cumulative[g][a].vals[i] >= last_deaths(a)
                /\ \A i \in 1..(Len(dm.pred_cumulative[g][a].vals) - 1) :
                      dm.pred_cumulative[g][a].vals[i] <=
                          dm.pred_cumulative[g][a].vals[i + 1]

C28_Witness ==
    /\ pc = "dm_done"
    /\ \E g \in SetOf(GROUPS) : \E a \in SetOf(GroupAreas[g]) :
          /\ NonNegativeDrivers(g, a)
          /\ RLt(R(0), dm.cfr[g][a])
          /\ Len(dm.pred_daily[g][a].vals) = MaxPred
          /\ dm.pred_daily[g][a].vals[1] > 0
          /\ dm.pred_cumulative[g][a].vals[MaxPred] > last_deaths(a)

\* the loop body has taken the branch that fits the area
FitBranch ==
    \/ pc \in {"bounded", "raised"}
    \/ pc = "predicted" /\ params # AllNaN

\* the loop body has taken one of its two branches
BranchTaken == pc \in {"bounded", "raised", "predicted"}

\* C29: fit threshold.  An area is fitted exactly when the smaller of the
\* configured n_train and the number of points of its smoothed series is at
\* least MIN_OBS; with n_train below MIN_OBS no area is fitted and every
\* forecast is all zeros.
C29_FitThreshold ==
    BranchTaken =>
        /\ FitBranch <=> Min({cfg.n_train, Len(smoothed.vals)}) >= MIN_OBS
        /\ cfg.n_train < MIN_OBS =>
              /\ pc = "predicted"
              /\ \A i \in 1..Len(pred_daily) : pred_daily[i] = 0

\* C30: deaths forecast horizon.  Whatever the cutoff of the DeathsModel is
\* relative to the cutoff of its CasesModel, the deaths forecast of every
\* area has n_pred rows, dated the n_pred consecutive days right after the
\* DeathsModel's own cutoff, and the combined cumulative deaths table holds
\* every day from the first one to the last forecast day exactly once.
C30_DeathsHorizon ==
    pc = "dm_done" =>
        \A g \in SetOf(GROUPS) : \A a \in SetOf(GroupAreas[g]) :
            /\ dm.pred_daily[g][a].index = date_range(dm_last_date + 1, cfg.n_pred)
            /\ dm.pred_cumulative[g][a].index =
                  date_range(dm_last_date + 1, cfg.n_pred)
            /\ dm.combined_cumulative[g][a].index =
                  date_range(1, dm_last_date + cfg.n_pred)

====
